---- MODULE Spec2Model ----
(***************************************************************************)
(* Lobby coordinator of ema-gaming (src/index.js): the in-memory session   *)
(* store `activeGames`, the connection registry `connectedUsers`, and the  *)
(* socket event handlers createGame / joinGame / leaveGame / toggleReady / *)
(* updateGame / disconnect, each of which runs to completion without a     *)
(* suspension point and broadcasts through io.emit (Spec, and OwnerSpec    *)
(* with the origin of each participant record); the connection handling of *)
(* the chat server in src/server/index.js (ChatSpec); the status query     *)
(* queryGameServer with its dgram socket, parser and timer (QuerySpec) and *)
(* the endpoint that awaits it (StatusSpec); the log of all io.emit calls  *)
(* (FanoutSpec); and the coordinator with two sockets (SocketsSpec).       *)
(***************************************************************************)
EXTENDS Integers, Sequences, FiniteSets, TLC

\* ---------------------------------------------------------------- bounds
\* participant records held by all sessions together
MaxPlayers == 3

\* ---------------------------------------------------------------- domains
Conns == {"c1"}
Uids == {"u1", "u2"}
GameIds == {"g1", "g2"}
NoUser == "none"
NoGame == [id |-> "none"]
InProgress == "In Progress"
Statuses == {"Open", InProgress}

Player == [uid : Uids, isReady : BOOLEAN]

\* the participant lists a createGame payload arrives with
InitialParticipants ==
    {<<>>, <<[uid |-> "u1", isReady |-> FALSE]>>, <<[uid |-> "u2", isReady |-> TRUE]>>}

\* createGame payloads: a new lobby is announced open; payloads have the shape of a
\* session (id, status, participants list), the handler itself validates nothing
GameData == [id : GameIds, status : {"Open"}, participants : InitialParticipants]

\* chat server (src/server/index.js): sockets, each connecting once
ChatConns == {"s1", "s2", "s3"}

\* a socket before its connection event
NewSocket == [connected |-> FALSE, handler |-> "none"]

\* status queries in flight at the same time
Queries == {"q1", "q2"}

\* a call slot before queryGameServer is called
NoCall == [promise |-> "none"]

\* a request slot before the request arrives
NoRequest == [port |-> ""]

VARIABLES
    connectedUsers,  \* Map socket.id -> user.id (NoUser: no entry); name, email and
                     \* avatar of the entry are stored and never read by a handler
    activeGames,     \* Map gameId -> game, as the sequence of its entries in insertion order
    emitted,         \* the io.emit calls of the last handler run, in order
    lastOp,          \* the last handler run and its arguments
    preGames,        \* activeGames as it was when the last handler started
    preUsers,        \* connectedUsers as it was when the last handler started
    addedBy,         \* per game id, for each participant record in order, the socket whose
                     \* joinGame appended it (bookkeeping of the model, not of the program)
    chatUsers,       \* chat server: Map socket.id -> user.id (NoUser: no entry)
    chatSockets,     \* chat server: per socket, its connection state and how far its
                     \* connection handler has run
    calls,           \* per queryGameServer call: promise, dgram socket, timer, clock
    crashed,         \* the process died of an exception thrown outside any try/catch
    requests,        \* per GET /api/server-status/:ip/:port request: its port and its answer
    broadcastLog     \* every io.emit of the lobby handlers since the start, in call order

lobbyVars == <<connectedUsers, activeGames, emitted, lastOp, preGames, preUsers>>

ownerVars == <<addedBy>>

chatVars == <<chatUsers, chatSockets>>

queryVars == <<calls, crashed>>

endpointVars == <<requests>>

fanoutVars == <<broadcastLog>>

vars == <<lobbyVars, ownerVars, chatVars, queryVars, endpointVars, fanoutVars>>

\* ---------------------------------------------------------------- Map helpers
Keys(m) == {m[i].id : i \in DOMAIN m}

Has(m, k) == \E i \in DOMAIN m : m[i].id = k

Get(m, k) == IF Has(m, k) THEN m[CHOOSE i \in DOMAIN m : m[i].id = k] ELSE NoGame

\* variant: a session written back without participants is deleted instead
MapSetOrDelete(m, k, v) ==
    IF v.participants = <<>> THEN SelectSeq(m, LAMBDA g : g.id # k)
    ELSE IF Has(m, k) THEN [i \in DOMAIN m |-> IF m[i].id = k THEN v ELSE m[i]]
    ELSE Append(m, v)

\* Map.prototype.set: an existing key keeps its position, a new key goes last
MapSet(m, k, v) ==
    IF Has(m, k) THEN [i \in DOMAIN m |-> IF m[i].id = k THEN v ELSE m[i]]
    ELSE Append(m, v)

\* ---------------------------------------------------------------- readiness
\* game.participants.every(p => p.isReady)
AllReady(game) == \A i \in DOMAIN game.participants : game.participants[i].isReady

RECURSIVE Players(_)
Players(m) == IF m = <<>> THEN 0 ELSE Len(Head(m).participants) + Players(Tail(m))

\* ---------------------------------------------------------------- initial state
LobbyInit ==
    /\ connectedUsers = [c \in Conns |-> NoUser]
    /\ activeGames = <<>>
    /\ emitted = <<>>
    /\ lastOp = [op |-> "init"]
    /\ preGames = <<>>
    /\ preUsers = [c \in Conns |-> NoUser]

OwnerInit == addedBy = [gameId \in GameIds |-> <<>>]

ChatInit ==
    /\ chatUsers = [c \in ChatConns |-> NoUser]
    /\ chatSockets = [c \in ChatConns |-> NewSocket]

QueryInit ==
    /\ calls = [q \in Queries |-> NoCall]
    /\ crashed = FALSE

EndpointInit == requests = [q \in Queries |-> NoRequest]

FanoutInit == broadcastLog = <<>>

Init == LobbyInit /\ OwnerInit /\ ChatInit /\ QueryInit /\ EndpointInit /\ FanoutInit

Registered(c) == connectedUsers[c] # NoUser

\* the lobby handlers are bound per socket, after its registration, and never read the socket
HandlersBound == \E c \in DOMAIN connectedUsers : Registered(c)

Snapshot ==
    /\ preGames' = activeGames
    /\ preUsers' = connectedUsers

\* ---------------------------------------------------------------- io.on('connection')
\* variant: the handshake is not checked and a missing user id is replaced by a fallback
ConnectUnchecked(c, uid) ==
    /\ ~Registered(c)
    /\ Snapshot
    /\ lastOp' = [op |-> "connection", conn |-> c, uid |-> uid, disconnected |-> FALSE]
    /\ emitted' = <<>>
    /\ UNCHANGED activeGames
    /\ connectedUsers' = [connectedUsers EXCEPT ![c] = IF uid = NoUser THEN "u1" ELSE uid]

\* a handshake without auth.uid ends in socket.disconnect() and an early return, before
\* the registry is written and before any handler is bound to the socket
Connect(c, uid) ==
    /\ ~Registered(c)
    /\ Snapshot
    /\ lastOp' = [op |-> "connection", conn |-> c, uid |-> uid, disconnected |-> (uid = NoUser)]
    /\ emitted' = <<>>
    /\ UNCHANGED activeGames
    /\ IF uid = NoUser
       THEN UNCHANGED connectedUsers
       ELSE connectedUsers' = [connectedUsers EXCEPT ![c] = uid]

\* ---------------------------------------------------------------- socket.on('createGame')
\* variant: a game id already in the store is not overwritten
CreateGameOnce(gameData) ==
    /\ HandlersBound
    /\ Players(MapSet(activeGames, gameData.id, gameData)) <= MaxPlayers
    /\ Snapshot
    /\ lastOp' = [op |-> "createGame", gameData |-> gameData]
    /\ UNCHANGED connectedUsers
    /\ IF Has(activeGames, gameData.id)
       THEN /\ UNCHANGED activeGames
            /\ emitted' = <<>>
       ELSE /\ activeGames' = Append(activeGames, gameData)
            /\ emitted' = <<[type |-> "gameCreated", game |-> gameData]>>

CreateGame(gameData) ==
    /\ HandlersBound
    /\ Players(MapSet(activeGames, gameData.id, gameData)) <= MaxPlayers
    /\ Snapshot
    /\ lastOp' = [op |-> "createGame", gameData |-> gameData]
    /\ activeGames' = MapSet(activeGames, gameData.id, gameData)
    /\ emitted' = <<[type |-> "gameCreated", game |-> gameData]>>
    /\ UNCHANGED connectedUsers

\* ---------------------------------------------------------------- socket.on('joinGame')
\* variant: the player record kept as the caller sent it
PlayerAsSent(player) == player

\* { ...player, isReady: false }
PlayerWithReady(player) == [player EXCEPT !.isReady = FALSE]

\* variant: an unknown game id opens a new lobby instead of being dropped
JoinOrOpenGame(gameId, player) ==
    LET game == Get(activeGames, gameId)
        playerWithReady == PlayerWithReady(player)
        joined == IF game = NoGame
                  THEN [id |-> gameId, status |-> "Open", participants |-> <<playerWithReady>>]
                  ELSE [game EXCEPT !.participants = Append(game.participants, playerWithReady)]
    IN  /\ HandlersBound
        /\ Players(activeGames) < MaxPlayers
        /\ Snapshot
        /\ lastOp' = [op |-> "joinGame", gameId |-> gameId, player |-> player]
        /\ UNCHANGED connectedUsers
        /\ activeGames' = MapSet(activeGames, gameId, joined)
        /\ emitted' = <<[type |-> "playerJoined", gameId |-> gameId, player |-> playerWithReady]>>

\* variant: the handler awaits between reading the session and writing it back, and
\* another event is handled meanwhile: it writes a copy of the session it had read
JoinGameSuspended(gameId, player) ==
    LET game == Get(activeGames, gameId)
        read == IF Has(preGames, gameId) THEN Get(preGames, gameId) ELSE game
        playerWithReady == PlayerWithReady(player)
    IN  /\ HandlersBound
        /\ game # NoGame => Players(activeGames) < MaxPlayers
        /\ Snapshot
        /\ lastOp' = [op |-> "joinGame", gameId |-> gameId, player |-> player]
        /\ UNCHANGED connectedUsers
        /\ IF game = NoGame
           THEN /\ UNCHANGED activeGames
                /\ emitted' = <<>>
           ELSE /\ activeGames' = MapSet(activeGames, gameId,
                        [read EXCEPT !.participants = Append(read.participants, playerWithReady)])
                /\ emitted' = <<[type |-> "playerJoined", gameId |-> gameId,
                                 player |-> playerWithReady]>>

\* variant: a session that is in progress takes no new participant
JoinGameIfOpen(gameId, player) ==
    LET game == Get(activeGames, gameId)
        playerWithReady == PlayerWithReady(player)
    IN  /\ HandlersBound
        /\ game # NoGame => Players(activeGames) < MaxPlayers
        /\ Snapshot
        /\ lastOp' = [op |-> "joinGame", gameId |-> gameId, player |-> player]
        /\ UNCHANGED connectedUsers
        /\ IF game = NoGame \/ game.status = InProgress
           THEN /\ UNCHANGED activeGames
                /\ emitted' = <<>>
           ELSE /\ activeGames' = MapSet(activeGames, gameId,
                        [game EXCEPT !.participants = Append(game.participants, playerWithReady)])
                /\ emitted' = <<[type |-> "playerJoined", gameId |-> gameId,
                                 player |-> playerWithReady]>>

JoinGame(gameId, player) ==
    LET game == Get(activeGames, gameId)
        playerWithReady == PlayerWithReady(player)
    IN  /\ HandlersBound
        /\ game # NoGame => Players(activeGames) < MaxPlayers
        /\ Snapshot
        /\ lastOp' = [op |-> "joinGame", gameId |-> gameId, player |-> player]
        /\ UNCHANGED connectedUsers
        /\ IF game = NoGame
           THEN /\ UNCHANGED activeGames
                /\ emitted' = <<>>
           ELSE /\ activeGames' = MapSet(activeGames, gameId,
                        [game EXCEPT !.participants = Append(game.participants, playerWithReady)])
                /\ emitted' = <<[type |-> "playerJoined", gameId |-> gameId,
                                 player |-> playerWithReady]>>

\* ---------------------------------------------------------------- socket.on('leaveGame')
\* variant: only the first matching record is taken out
WithoutFirstMatch(participants, playerId) ==
    LET hits == {i \in DOMAIN participants : participants[i].uid = playerId}
        first == CHOOSE i \in hits : \A j \in hits : i <= j
    IN  IF hits = {} THEN participants
        ELSE SubSeq(participants, 1, first - 1) \o SubSeq(participants, first + 1, Len(participants))

\* game.participants.filter(p => p.uid !== playerId)
WithoutPlayer(participants, playerId) == SelectSeq(participants, LAMBDA p : p.uid # playerId)

LeaveGame(gameId, playerId) ==
    LET game == Get(activeGames, gameId)
    IN  /\ HandlersBound
        /\ Snapshot
        /\ lastOp' = [op |-> "leaveGame", gameId |-> gameId, playerId |-> playerId]
        /\ UNCHANGED connectedUsers
        /\ IF game = NoGame
           THEN /\ UNCHANGED activeGames
                /\ emitted' = <<>>
           ELSE /\ activeGames' = MapSet(activeGames, gameId,
                        [game EXCEPT !.participants = WithoutPlayer(game.participants, playerId)])
                /\ emitted' = <<[type |-> "playerLeft", gameId |-> gameId,
                                 playerId |-> playerId]>>

\* ---------------------------------------------------------------- socket.on('toggleReady')
\* variant: the flag assigned to every record of the session
WithReadyForAll(participants, playerId, isReady) ==
    [i \in DOMAIN participants |-> [participants[i] EXCEPT !.isReady = isReady]]

\* variant: the flag is flipped instead of set to the value sent
WithReadyFlipped(participants, playerId, isReady) ==
    [i \in DOMAIN participants |->
        IF participants[i].uid = playerId
        THEN [participants[i] EXCEPT !.isReady = ~participants[i].isReady]
        ELSE participants[i]]

\* game.participants.map(p => p.uid === playerId ? { ...p, isReady } : p)
WithReady(participants, playerId, isReady) ==
    [i \in DOMAIN participants |->
        IF participants[i].uid = playerId
        THEN [participants[i] EXCEPT !.isReady = isReady]
        ELSE participants[i]]

\* variant: an empty lobby is not announced ready
ReadyNoticeIfPlayers(game, gameId) ==
    IF AllReady(game) /\ game.participants # <<>>
    THEN <<[type |-> "allPlayersReady", gameId |-> gameId]>> ELSE <<>>

\* the allPlayersReady notification that follows playerReadyChanged
ReadyNotice(game, gameId) ==
    IF AllReady(game) THEN <<[type |-> "allPlayersReady", gameId |-> gameId]>> ELSE <<>>

\* variant: the readiness of the session announced ahead of the change that caused it
ToggleReadyNoticeFirst(gameId, playerId, isReady) ==
    LET game == Get(activeGames, gameId)
        updated == [game EXCEPT !.participants = WithReady(game.participants, playerId, isReady)]
    IN  /\ HandlersBound
        /\ Snapshot
        /\ lastOp' = [op |-> "toggleReady", gameId |-> gameId, playerId |-> playerId,
                      isReady |-> isReady]
        /\ UNCHANGED connectedUsers
        /\ IF game = NoGame
           THEN /\ UNCHANGED activeGames
                /\ emitted' = <<>>
           ELSE /\ activeGames' = MapSet(activeGames, gameId, updated)
                /\ emitted' = ReadyNotice(updated, gameId)
                              \o <<[type |-> "playerReadyChanged", gameId |-> gameId,
                                    playerId |-> playerId, isReady |-> isReady]>>

\* variant: a user who is not in the session is ignored
ToggleReadyOfParticipant(gameId, playerId, isReady) ==
    LET game == Get(activeGames, gameId)
        updated == [game EXCEPT !.participants = WithReady(game.participants, playerId, isReady)]
    IN  /\ HandlersBound
        /\ Snapshot
        /\ lastOp' = [op |-> "toggleReady", gameId |-> gameId, playerId |-> playerId,
                      isReady |-> isReady]
        /\ UNCHANGED connectedUsers
        /\ IF game = NoGame \/ ~\E i \in DOMAIN game.participants : game.participants[i].uid = playerId
           THEN /\ UNCHANGED activeGames
                /\ emitted' = <<>>
           ELSE /\ activeGames' = MapSet(activeGames, gameId, updated)
                /\ emitted' = <<[type |-> "playerReadyChanged", gameId |-> gameId,
                                 playerId |-> playerId, isReady |-> isReady]>>
                              \o ReadyNotice(updated, gameId)

ToggleReady(gameId, playerId, isReady) ==
    LET game == Get(activeGames, gameId)
        updated == [game EXCEPT !.participants = WithReady(game.participants, playerId, isReady)]
    IN  /\ HandlersBound
        /\ Snapshot
        /\ lastOp' = [op |-> "toggleReady", gameId |-> gameId, playerId |-> playerId,
                      isReady |-> isReady]
        /\ UNCHANGED connectedUsers
        /\ IF game = NoGame
           THEN /\ UNCHANGED activeGames
                /\ emitted' = <<>>
           ELSE /\ activeGames' = MapSet(activeGames, gameId, updated)
                /\ emitted' = <<[type |-> "playerReadyChanged", gameId |-> gameId,
                                 playerId |-> playerId, isReady |-> isReady]>>
                              \o ReadyNotice(updated, gameId)

\* ---------------------------------------------------------------- socket.on('updateGame')
\* variant: the status is written only when every participant is ready
WithStatusIfReady(game, status) == IF AllReady(game) THEN [game EXCEPT !.status = status] ELSE game

\* game.status = status; activeGames.set(gameId, game): done before the readiness check
WithStatus(game, status) == [game EXCEPT !.status = status]

\* variant: an empty lobby is also refused
StartRefusedOrEmpty(game, status) ==
    status = InProgress /\ (~AllReady(game) \/ game.participants = <<>>)

\* the early return of the handler: starting a game whose players are not all ready
StartRefused(game, status) == status = InProgress /\ ~AllReady(game)

\* variant: the session broadcast once when stored and once more at the end
UpdateNoticesTwice(game, status) ==
    IF StartRefused(game, status)
    THEN <<>>
    ELSE <<[type |-> "gameUpdated", game |-> game], [type |-> "gameUpdated", game |-> game]>>

\* variant: the broadcast placed ahead of the readiness check
UpdateNoticesUnchecked(game, status) == <<[type |-> "gameUpdated", game |-> game]>>

\* io.emit('gameUpdated', game), reached only past the early return
UpdateNotices(game, status) ==
    IF StartRefused(game, status) THEN <<>> ELSE <<[type |-> "gameUpdated", game |-> game]>>

\* variant: an unknown game id is stored as a new, empty session with the status sent
UpdateOrOpenGame(gameId, status) ==
    LET game == Get(activeGames, gameId)
        updated == IF game = NoGame
                   THEN [id |-> gameId, status |-> status, participants |-> <<>>]
                   ELSE WithStatus(game, status)
    IN  /\ HandlersBound
        /\ Snapshot
        /\ lastOp' = [op |-> "updateGame", gameId |-> gameId, status |-> status]
        /\ UNCHANGED connectedUsers
        /\ activeGames' = MapSet(activeGames, gameId, updated)
        /\ emitted' = UpdateNotices(updated, status)

UpdateGame(gameId, status) ==
    LET game == Get(activeGames, gameId)
        updated == WithStatus(game, status)
    IN  /\ HandlersBound
        /\ Snapshot
        /\ lastOp' = [op |-> "updateGame", gameId |-> gameId, status |-> status]
        /\ UNCHANGED connectedUsers
        /\ IF game = NoGame
           THEN /\ UNCHANGED activeGames
                /\ emitted' = <<>>
           ELSE /\ activeGames' = MapSet(activeGames, gameId, updated)
                /\ emitted' = UpdateNotices(updated, status)

\* ---------------------------------------------------------------- socket.on('disconnect')
\* game.participants.some(p => p.uid === user.id)
InGame(game, uid) == \E i \in DOMAIN game.participants : game.participants[i].uid = uid

\* variant: the loop returns after the first session the user was found in
GamesFirstWithoutUser(games, uid) ==
    [i \in DOMAIN games |->
        IF InGame(games[i], uid) /\ ~\E j \in 1..(i - 1) : InGame(games[j], uid)
        THEN [games[i] EXCEPT !.participants = WithoutPlayer(games[i].participants, uid)]
        ELSE games[i]]

\* variant: a session a user is taken out of is opened again
GamesWithoutUserReopened(games, uid) ==
    [i \in DOMAIN games |->
        IF InGame(games[i], uid)
        THEN [games[i] EXCEPT !.participants = WithoutPlayer(games[i].participants, uid),
                              !.status = "Open"]
        ELSE games[i]]

\* the for-of loop over activeGames.entries(): the store after it
GamesWithoutUser(games, uid) ==
    [i \in DOMAIN games |->
        IF InGame(games[i], uid)
        THEN [games[i] EXCEPT !.participants = WithoutPlayer(games[i].participants, uid)]
        ELSE games[i]]

\* variant: the loop stops at the first game the user was in
FirstDepartureNotice(games, uid) ==
    LET left == SelectSeq(games, LAMBDA g : InGame(g, uid))
    IN  IF left = <<>> THEN <<>>
        ELSE <<[type |-> "playerLeft", gameId |-> left[1].id, playerId |-> uid]>>

\* the for-of loop over activeGames.entries(): its broadcasts, in iteration order
DepartureNotices(games, uid) ==
    LET left == SelectSeq(games, LAMBDA g : InGame(g, uid))
    IN  [i \in DOMAIN left |-> [type |-> "playerLeft", gameId |-> left[i].id, playerId |-> uid]]

\* variant: the cleanup is keyed by connection: the sessions are cleaned only when no
\* other socket is registered with the same user id
DisconnectLastOfUser(c) ==
    LET user == connectedUsers[c]
        last == \A d \in DOMAIN connectedUsers : d # c => connectedUsers[d] # user
    IN  /\ Registered(c)
        /\ Snapshot
        /\ lastOp' = [op |-> "disconnect", conn |-> c]
        /\ connectedUsers' = [connectedUsers EXCEPT ![c] = NoUser]
        /\ activeGames' = IF last THEN GamesWithoutUser(activeGames, user) ELSE activeGames
        /\ emitted' = IF last THEN DepartureNotices(activeGames, user) ELSE <<>>

Disconnect(c) ==
    LET user == connectedUsers[c]
    IN  /\ Registered(c)
        /\ Snapshot
        /\ lastOp' = [op |-> "disconnect", conn |-> c]
        /\ connectedUsers' = [connectedUsers EXCEPT ![c] = NoUser]
        /\ activeGames' = GamesWithoutUser(activeGames, user)
        /\ emitted' = DepartureNotices(activeGames, user)

\* the lobby coordinator on its own: chat server and status queries stay as they are
LobbyOnly == UNCHANGED <<ownerVars, chatVars, queryVars, endpointVars, fanoutVars>>

Next ==
    \/ \E c \in Conns, uid \in Uids \cup {NoUser} : Connect(c, uid) /\ LobbyOnly
    \/ \E gameData \in GameData : CreateGame(gameData) /\ LobbyOnly
    \/ \E gameId \in GameIds, player \in Player : JoinGame(gameId, player) /\ LobbyOnly
    \/ \E gameId \in GameIds, playerId \in Uids : LeaveGame(gameId, playerId) /\ LobbyOnly
    \/ \E gameId \in GameIds, playerId \in Uids, isReady \in BOOLEAN :
            ToggleReady(gameId, playerId, isReady) /\ LobbyOnly
    \/ \E gameId \in GameIds, status \in Statuses : UpdateGame(gameId, status) /\ LobbyOnly
    \/ \E c \in Conns : Disconnect(c) /\ LobbyOnly

Spec == Init /\ [][Next]_vars

\* ================================================================ who added which record
\* The lobby handlers with the bookkeeping of record origin: joinGame appends the
\* player sent, whatever uid it carries, on behalf of the socket the event arrived on.
Payload == "payload"

Gone == "gone"

\* the origins of the records a filter on uid keeps
RECURSIVE KeptOrigins(_, _, _)
KeptOrigins(participants, origins, uid) ==
    IF participants = <<>> THEN <<>>
    ELSE IF Head(participants).uid = uid
         THEN KeptOrigins(Tail(participants), Tail(origins), uid)
         ELSE <<Head(origins)>> \o KeptOrigins(Tail(participants), Tail(origins), uid)

\* a socket id is never reused: what an earlier connection added is no longer c's
OwnerConnect(c, uid) ==
    /\ Connect(c, uid)
    /\ addedBy' = [gameId \in GameIds |->
                      [i \in DOMAIN addedBy[gameId] |->
                          IF addedBy[gameId][i] = c THEN Gone ELSE addedBy[gameId][i]]]

OwnerCreateGame(gameData) ==
    /\ CreateGame(gameData)
    /\ addedBy' = [addedBy EXCEPT ![gameData.id] = [i \in DOMAIN gameData.participants |-> Payload]]

OwnerJoinGame(c, gameId, player) ==
    /\ Registered(c)
    /\ JoinGame(gameId, player)
    /\ addedBy' = IF Has(activeGames, gameId)
                  THEN [addedBy EXCEPT ![gameId] = Append(@, c)]
                  ELSE addedBy

OwnerLeaveGame(gameId, playerId) ==
    /\ LeaveGame(gameId, playerId)
    /\ addedBy' = IF Has(activeGames, gameId)
                  THEN [addedBy EXCEPT ![gameId] =
                            KeptOrigins(Get(activeGames, gameId).participants, @, playerId)]
                  ELSE addedBy

OwnerDisconnect(c) ==
    /\ Disconnect(c)
    /\ addedBy' = [gameId \in GameIds |->
                      IF Has(activeGames, gameId)
                      THEN KeptOrigins(Get(activeGames, gameId).participants,
                                       addedBy[gameId], connectedUsers[c])
                      ELSE addedBy[gameId]]

OwnerOnly == UNCHANGED <<chatVars, queryVars, endpointVars, fanoutVars>>

OwnerNext ==
    \/ \E c \in Conns, uid \in Uids \cup {NoUser} : OwnerConnect(c, uid) /\ OwnerOnly
    \/ \E gameData \in GameData : OwnerCreateGame(gameData) /\ OwnerOnly
    \/ \E c \in Conns, gameId \in GameIds, player \in Player :
            OwnerJoinGame(c, gameId, player) /\ OwnerOnly
    \/ \E gameId \in GameIds, playerId \in Uids : OwnerLeaveGame(gameId, playerId) /\ OwnerOnly
    \/ \E c \in Conns : OwnerDisconnect(c) /\ OwnerOnly

OwnerSpec == Init /\ [][OwnerNext]_vars

\* ================================================================ chat server
\* src/server/index.js: the connection handler registers the user, awaits the chat
\* history, and binds the socket's handlers, 'disconnect' included, only after the
\* await; a 'disconnect' event emitted while no handler is bound is delivered to nobody.
ChatLobbyUnchanged == UNCHANGED <<connectedUsers, activeGames, preGames, preUsers>>

\* io.on('connection') up to the await
ChatConnect(c, uid) ==
    /\ chatSockets[c] = NewSocket
    /\ lastOp' = [op |-> "chat:connection", conn |-> c, uid |-> uid]
    /\ emitted' = <<>>
    /\ IF uid = NoUser
       THEN /\ chatSockets' = [chatSockets EXCEPT ![c] = [connected |-> FALSE, handler |-> "returned"]]
            /\ UNCHANGED chatUsers
       ELSE /\ chatSockets' = [chatSockets EXCEPT ![c] = [connected |-> TRUE, handler |-> "fetching"]]
            /\ chatUsers' = [chatUsers EXCEPT ![c] = uid]
    /\ ChatLobbyUnchanged

\* the continuation after await getChatHistory(), which always resolves: the history is
\* sent to the socket (dropped if it is closed) and the three handlers are bound
ChatHistoryFetched(c) ==
    /\ chatSockets[c].handler = "fetching"
    /\ lastOp' = [op |-> "chat:history", conn |-> c]
    /\ emitted' = IF chatSockets[c].connected
                  THEN <<[type |-> "chat:history", to |-> c]>>
                  ELSE <<>>
    /\ chatSockets' = [chatSockets EXCEPT ![c].handler = "bound"]
    /\ UNCHANGED chatUsers
    /\ ChatLobbyUnchanged

\* socket.on('chat:message'): the message carries the registry entry of the sender
ChatMessage(c) ==
    /\ chatSockets[c].connected
    /\ chatSockets[c].handler = "bound"
    /\ lastOp' = [op |-> "chat:message", conn |-> c]
    /\ emitted' = IF chatUsers[c] = NoUser
                  THEN <<>>
                  ELSE <<[type |-> "chat:message", sender |-> chatUsers[c]]>>
    /\ UNCHANGED <<chatUsers, chatSockets>>
    /\ ChatLobbyUnchanged

\* socket.on('chat:typing')
ChatTyping(c, isTyping) ==
    /\ chatSockets[c].connected
    /\ chatSockets[c].handler = "bound"
    /\ lastOp' = [op |-> "chat:typing", conn |-> c, isTyping |-> isTyping]
    /\ emitted' = IF chatUsers[c] = NoUser
                  THEN <<>>
                  ELSE <<[type |-> "chat:typing", user |-> chatUsers[c], isTyping |-> isTyping]>>
    /\ UNCHANGED <<chatUsers, chatSockets>>
    /\ ChatLobbyUnchanged

\* the client goes away; socket.on('disconnect') runs if it is bound by then
ChatDisconnect(c) ==
    /\ chatSockets[c].connected
    /\ lastOp' = [op |-> "chat:disconnect", conn |-> c]
    /\ chatSockets' = [chatSockets EXCEPT ![c].connected = FALSE]
    /\ IF chatSockets[c].handler = "bound"
       THEN /\ emitted' = IF chatUsers[c] = NoUser
                          THEN <<>>
                          ELSE <<[type |-> "chat:typing", user |-> chatUsers[c], isTyping |-> FALSE]>>
            /\ chatUsers' = [chatUsers EXCEPT ![c] = NoUser]
       ELSE /\ emitted' = <<>>
            /\ UNCHANGED chatUsers
    /\ ChatLobbyUnchanged

ChatOnly == UNCHANGED <<ownerVars, queryVars, endpointVars, fanoutVars>>

ChatNext ==
    \/ \E c \in ChatConns, uid \in Uids \cup {NoUser} : ChatConnect(c, uid) /\ ChatOnly
    \/ \E c \in ChatConns : ChatHistoryFetched(c) /\ ChatOnly
    \/ \E c \in ChatConns : ChatMessage(c) /\ ChatOnly
    \/ \E c \in ChatConns, isTyping \in BOOLEAN : ChatTyping(c, isTyping) /\ ChatOnly
    \/ \E c \in ChatConns : ChatDisconnect(c) /\ ChatOnly

ChatSpec == Init /\ [][ChatNext]_vars

\* ================================================================ status query: parsing
\* A datagram's text as the sequence of its pieces: the two separators the parser
\* splits on, and between them the runs of other characters, each as one string.
NL == "\n"

BS == "\\"

TimeoutMs == 3000

DefaultMaxPlayers == 32

\* milliseconds between two looks at the clock
TickMs == 1000

\* the value of a missing array element; no token of a split equals it
Undefined == "\\undefined"

\* a JavaScript number that parseInt returned
Number(n) == [number |-> n]

NaN == [nan |-> TRUE]

\* parseInt on the tokens that begin with digits; on every other token it gives NaN
IntPrefix ==
    [t \in {"16", "16x", "8", "0", "-1", "27960", "27960x", "65535", "65536"} |->
        CASE t = "8" -> 8
          [] t = "0" -> 0
          [] t = "-1" -> -1
          [] t \in {"27960", "27960x"} -> 27960
          [] t = "65535" -> 65535
          [] t = "65536" -> 65536
          [] OTHER -> 16]

ParseInt(value) == IF value \in DOMAIN IntPrefix THEN Number(IntPrefix[value]) ELSE NaN

\* String.prototype.split(sep): the pieces between the separators, empty ones included
RECURSIVE Split(_, _)
Split(s, sep) ==
    IF \E i \in DOMAIN s : s[i] = sep
    THEN LET i == CHOOSE k \in DOMAIN s : s[k] = sep /\ \A j \in 1..(k - 1) : s[j] # sep
         IN  <<SubSeq(s, 1, i - 1)>> \o Split(SubSeq(s, i + 1, Len(s)), sep)
    ELSE <<s>>

\* a piece without separators is the empty string or one run of characters
Text(piece) == IF piece = <<>> THEN "" ELSE piece[1]

\* statusVars[i]; past the end of the array it is undefined
At(statusVars, i) == IF i <= Len(statusVars) THEN Text(statusVars[i]) ELSE Undefined

\* the for loop over statusVars in steps of two, from index i (counted from 1) on
RECURSIVE ReadVars(_, _, _)
ReadVars(status, statusVars, i) ==
    IF i > Len(statusVars) THEN status
    ELSE LET key == At(statusVars, i)
             value == At(statusVars, i + 1)
             s1 == IF key = "sv_maxclients" THEN [status EXCEPT !.maxPlayers = ParseInt(value)] ELSE status
             s2 == IF key = "mapname" THEN [s1 EXCEPT !.map = value] ELSE s1
             s3 == IF key = "g_gametype" THEN [s2 EXCEPT !.gametype = value] ELSE s2
         IN  ReadVars(s3, statusVars, i + 2)

\* the body of the try block of the message handler, up to client.close()
ParseStatus(response) ==
    LET lines == Split(response, NL)
        statusLine == Head(lines)
        playerLines == Tail(lines)
        statusVars == Tail(Split(statusLine, BS))
        status == [status |-> "online",
                   players |-> Len(playerLines) - 1,
                   maxPlayers |-> Number(DefaultMaxPlayers),
                   map |-> "unknown",
                   gametype |-> "unknown"]
    IN  ReadVars(status, statusVars, 1)

\* the response of the specification's test: header line, variables line, two players
Captured ==
    <<"statusResponse", NL,
      BS, "sv_maxclients", BS, "16", BS, "mapname", BS, "dm1", BS, "g_gametype", BS, "0", NL,
      "player1", NL, "player2", NL>>

\* the same without the header line
HeaderLess ==
    <<BS, "sv_maxclients", BS, "16", BS, "mapname", BS, "dm1", BS, "g_gametype", BS, "0", NL,
      "player1", NL, "player2", NL>>

\* a key the parser does not know, one it knows, and no player section
OtherKeys == <<BS, "sv_hostname", BS, "ema", BS, "mapname", BS, "dm2", NL>>

\* a count that is no number and a key without a value
Ragged == <<BS, "sv_maxclients", BS, "many", BS, "g_gametype">>

\* the datagrams a target may answer with
Responses == {Captured, HeaderLess, OtherKeys, Ragged, <<>>}

\* ================================================================ status query: the call
\* queryGameServer(ip, port): a promise, a dgram socket with a message and an error
\* handler, and a 3000 ms timer that nothing cancels. A closed dgram socket delivers no
\* further message or error event, and close() on it throws; the timer callback has no
\* try/catch and the process no uncaughtException handler, so that throw ends the process.
Targets == {"answering", "silent", "failing"}

\* what a promise holds: nothing yet, a status, or an Error with its message
Nothing == [settled |-> FALSE]

Failure(message) == [error |-> message]

\* new Promise(...), dgram.createSocket, client.on, setTimeout, client.send
NewCall(target) ==
    [promise |-> "pending", result |-> Nothing, client |-> "open", timer |-> "armed",
     elapsed |-> 0, target |-> target, received |-> <<>>, did |-> <<>>]

Started(q) == calls[q] # NoCall

Pending(q) == Started(q) /\ calls[q].promise = "pending"

Settled(q) == Started(q) /\ calls[q].promise # "pending"

\* client.close() on a socket that is open
Close(call) == [call EXCEPT !.client = "closed", !.did = Append(@, "close")]

\* resolve and reject settle a pending promise and do nothing to a settled one
Resolve(call, value) ==
    IF call.promise = "pending"
    THEN [call EXCEPT !.promise = "resolved", !.result = value, !.did = Append(@, "resolve")]
    ELSE [call EXCEPT !.did = Append(@, "resolve")]

Reject(call, error) ==
    IF call.promise = "pending"
    THEN [call EXCEPT !.promise = "rejected", !.result = error, !.did = Append(@, "reject")]
    ELSE [call EXCEPT !.did = Append(@, "reject")]

QueryLobbyUnchanged == UNCHANGED <<lobbyVars, ownerVars, chatVars, fanoutVars>>

QueryGameServer(q, target) ==
    /\ ~crashed
    /\ ~Started(q)
    /\ calls' = [calls EXCEPT ![q] = NewCall(target)]
    /\ UNCHANGED crashed
    /\ QueryLobbyUnchanged

\* client.on('message'): parsing throws on no text, so the try block runs to its end
OnMessage(q, response) ==
    /\ ~crashed
    /\ Started(q)
    /\ calls[q].client = "open"
    /\ calls[q].target = "answering"
    /\ calls' = [calls EXCEPT ![q] =
                    Resolve(Close([@ EXCEPT !.received = response]), ParseStatus(response))]
    /\ UNCHANGED crashed
    /\ QueryLobbyUnchanged

\* client.on('error')
OnError(q) ==
    /\ ~crashed
    /\ Started(q)
    /\ calls[q].client = "open"
    /\ calls[q].target = "failing"
    /\ calls' = [calls EXCEPT ![q] = Reject(Close(@), Failure("IOError"))]
    /\ UNCHANGED crashed
    /\ QueryLobbyUnchanged

\* variant: the timer rejects and leaves the socket to the garbage collector
TimedOutOpen(call) == Reject([call EXCEPT !.timer = "fired"], Failure("Timeout"))

\* the timer callback on a socket that is still open
TimedOut(call) == Reject(Close([call EXCEPT !.timer = "fired"]), Failure("Timeout"))

\* the timer callback: on a socket already closed client.close() throws
\* ERR_SOCKET_DGRAM_NOT_RUNNING and reject is not reached
OnTimeout(q) ==
    /\ ~crashed
    /\ Started(q)
    /\ calls[q].timer = "armed"
    /\ calls[q].elapsed >= TimeoutMs
    /\ IF calls[q].client = "open"
       THEN /\ calls' = [calls EXCEPT ![q] = TimedOut(@)]
            /\ UNCHANGED crashed
       ELSE /\ calls' = [calls EXCEPT ![q] = [@ EXCEPT !.timer = "fired", !.did = Append(@, "close throws")]]
            /\ crashed' = TRUE
    /\ QueryLobbyUnchanged

\* time passes for every armed timer; a timer that is due fires before more time passes
Tick ==
    /\ ~crashed
    /\ \E q \in Queries : Started(q) /\ calls[q].timer = "armed"
    /\ \A q \in Queries : Started(q) /\ calls[q].timer = "armed" => calls[q].elapsed < TimeoutMs
    /\ calls' = [q \in Queries |->
                    IF Started(q) /\ calls[q].timer = "armed"
                    THEN [calls[q] EXCEPT !.elapsed = @ + TickMs]
                    ELSE calls[q]]
    /\ UNCHANGED crashed
    /\ QueryLobbyUnchanged

\* queryGameServer called directly, with no request behind it
QueryOnly == UNCHANGED endpointVars

QueryNext ==
    \/ \E q \in Queries, target \in Targets : QueryGameServer(q, target) /\ QueryOnly
    \/ \E q \in Queries, response \in Responses : OnMessage(q, response) /\ QueryOnly
    \/ \E q \in Queries : OnError(q) /\ QueryOnly
    \/ \E q \in Queries : OnTimeout(q) /\ QueryOnly
    \/ Tick /\ QueryOnly

QuerySpec == Init /\ [][QueryNext]_vars

\* ================================================================ status endpoint
\* app.get('/api/server-status/:ip/:port'): the port is checked, queryGameServer is
\* awaited, and its result or its failure is sent as JSON. The continuation of the
\* await runs as a microtask of the callback that settled the promise, ahead of any
\* other callback, so the answer is part of that callback's step. A route parameter
\* is never empty, so the first check of the handler (!ip || !port) never fails.
PortTexts == {"27960", "27960x", "65535", "65536", "0", "-1", "abc"}

Waiting == [sent |-> FALSE]

\* res.status(400).json({status: 'error', ..., error: 'Invalid port number'})
BadPort ==
    [code |-> 400,
     body |-> [status |-> "error", players |-> 0, maxPlayers |-> Number(DefaultMaxPlayers),
               error |-> "Invalid port number"]]

\* res.json(status)
Ok(status) == [code |-> 200, body |-> status]

\* the catch block: res.status(500).json({status: 'offline', ..., error: error.message})
Offline(message) ==
    [code |-> 500,
     body |-> [status |-> "offline", players |-> 0, maxPlayers |-> Number(DefaultMaxPlayers),
               error |-> message]]

\* isNaN(parsedPort) || parsedPort <= 0 || parsedPort > 65535, negated
ValidPort(parsedPort) ==
    parsedPort # NaN /\ parsedPort.number > 0 /\ parsedPort.number <= 65535

\* variant: a failed query is answered like a successful one, with the defaults
ReplyAlwaysOnline(call) ==
    IF call.promise = "resolved" THEN Ok(call.result)
    ELSE IF call.promise = "rejected"
         THEN Ok([status |-> "online", players |-> 0, maxPlayers |-> Number(DefaultMaxPlayers),
                  map |-> "unknown", gametype |-> "unknown"])
         ELSE Waiting

\* what follows `await queryGameServer(ip, parsedPort)`
ReplyTo(call) ==
    IF call.promise = "resolved" THEN Ok(call.result)
    ELSE IF call.promise = "rejected" THEN Offline(call.result.error)
         ELSE Waiting

\* the handler up to the await
Request(q, port, target) ==
    /\ ~crashed
    /\ requests[q] = NoRequest
    /\ IF ValidPort(ParseInt(port))
       THEN /\ QueryGameServer(q, target)
            /\ requests' = [requests EXCEPT ![q] =
                               [port |-> port, passed |-> ParseInt(port), reply |-> Waiting]]
       ELSE /\ requests' = [requests EXCEPT ![q] =
                               [port |-> port, passed |-> NaN, reply |-> BadPort]]
            /\ UNCHANGED queryVars
            /\ QueryLobbyUnchanged

\* the handler from the await on, run when a callback has settled the promise
Answer(q) == requests' = [requests EXCEPT ![q].reply = ReplyTo(calls'[q])]

StatusNext ==
    \/ \E q \in Queries, port \in PortTexts, target \in Targets : Request(q, port, target)
    \/ \E q \in Queries, response \in Responses : OnMessage(q, response) /\ Answer(q)
    \/ \E q \in Queries : OnError(q) /\ Answer(q)
    \/ \E q \in Queries : OnTimeout(q) /\ Answer(q)
    \/ Tick /\ UNCHANGED endpointVars

StatusSpec == Init /\ [][StatusNext]_vars

\* ================================================================ broadcast log
\* io.emit is a synchronous call: the events of a handler are handed to socket.io in
\* the order of the calls, and a handler runs to its end before the next event is
\* taken from the queue. The log is cut off at MaxLog events: an event whose
\* broadcasts would not fit is not taken.
MaxLog == 3

Issue ==
    /\ Len(broadcastLog) + Len(emitted') <= MaxLog
    /\ broadcastLog' = broadcastLog \o emitted'

FanoutOnly == UNCHANGED <<ownerVars, chatVars, queryVars, endpointVars>>

FanoutNext ==
    \/ \E c \in Conns, uid \in Uids \cup {NoUser} : Connect(c, uid) /\ Issue /\ FanoutOnly
    \/ \E gameData \in GameData : CreateGame(gameData) /\ Issue /\ FanoutOnly
    \/ \E gameId \in GameIds, player \in Player : JoinGame(gameId, player) /\ Issue /\ FanoutOnly
    \/ \E gameId \in GameIds, playerId \in Uids : LeaveGame(gameId, playerId) /\ Issue /\ FanoutOnly
    \/ \E gameId \in GameIds, playerId \in Uids, isReady \in BOOLEAN :
            ToggleReady(gameId, playerId, isReady) /\ Issue /\ FanoutOnly
    \/ \E gameId \in GameIds, status \in Statuses : UpdateGame(gameId, status) /\ Issue /\ FanoutOnly
    \/ \E c \in Conns : Disconnect(c) /\ Issue /\ FanoutOnly

FanoutSpec == Init /\ [][FanoutNext]_vars

\* ================================================================ two sockets
\* The lobby coordinator with two sockets, which may register with the same user id:
\* connectedUsers is keyed by socket.id and nothing relates its entries to each other.
Sockets == {"c1", "c2"}

SocketsInit ==
    /\ connectedUsers = [c \in Sockets |-> NoUser]
    /\ preUsers = [c \in Sockets |-> NoUser]
    /\ activeGames = <<>>
    /\ preGames = <<>>
    /\ emitted = <<>>
    /\ lastOp = [op |-> "init"]
    /\ OwnerInit /\ ChatInit /\ QueryInit /\ EndpointInit /\ FanoutInit

\* the log of this specification is cut off earlier, at MaxNotices events
MaxNotices == 2

IssueFew ==
    /\ Len(broadcastLog) + Len(emitted') <= MaxNotices
    /\ broadcastLog' = broadcastLog \o emitted'

SocketsNext ==
    \/ \E c \in Sockets, uid \in Uids \cup {NoUser} : Connect(c, uid) /\ IssueFew /\ FanoutOnly
    \/ \E gameData \in GameData : CreateGame(gameData) /\ IssueFew /\ FanoutOnly
    \/ \E gameId \in GameIds, player \in Player : JoinGame(gameId, player) /\ IssueFew /\ FanoutOnly
    \/ \E gameId \in GameIds, playerId \in Uids : LeaveGame(gameId, playerId) /\ IssueFew /\ FanoutOnly
    \/ \E gameId \in GameIds, playerId \in Uids, isReady \in BOOLEAN :
            ToggleReady(gameId, playerId, isReady) /\ IssueFew /\ FanoutOnly
    \/ \E gameId \in GameIds, status \in Statuses : UpdateGame(gameId, status) /\ IssueFew /\ FanoutOnly
    \/ \E c \in Sockets : Disconnect(c) /\ IssueFew /\ FanoutOnly

SocketsSpec == SocketsInit /\ [][SocketsNext]_vars

\* ================================================================ properties
\* The handler that ran last, the store it found and the store it left.
Ran(op) == lastOp.op = op

Known == Has(preGames, lastOp.gameId)

PreGame == Get(preGames, lastOp.gameId)

PostGame == Get(activeGames, lastOp.gameId)

Count(s, e) == Cardinality({i \in DOMAIN s : s[i] = e})

CountType(s, t) == Cardinality({i \in DOMAIN s : s[i].type = t})

EveryoneReady(participants) == \A i \in DOMAIN participants : participants[i].isReady = TRUE

StartRequested == Ran("updateGame") /\ lastOp.status = InProgress /\ Known

\* the request took effect: the status is set and gameUpdated carries the session
StartSucceeded ==
    /\ PostGame.status = InProgress
    /\ emitted = <<[type |-> "gameUpdated", game |-> PostGame]>>

\* C1: an updateGame to 'In Progress' on a known session with a participant that is
\* not ready leaves the session as it was: same status, same participants.
C1_RefusedStartLeavesSession ==
    (StartRequested /\ ~EveryoneReady(PreGame.participants)) => PostGame = PreGame

\* C2 as stated: the start succeeds exactly when the participant sequence is
\* non-empty and every participant is ready.
C2_StartIffNonEmptyAndReady ==
    StartRequested =>
        (StartSucceeded <=> (PreGame.participants # <<>> /\ EveryoneReady(PreGame.participants)))

\* C2 amended: an updateGame to 'In Progress' on a known session succeeds (status set,
\* gameUpdated broadcast) exactly when every participant is ready at call time, which
\* includes the session with no participants.
C2_StartIffEveryoneReady ==
    StartRequested => (StartSucceeded <=> EveryoneReady(PreGame.participants))

C2_Witness ==
    StartRequested /\ PreGame.participants = <<>> /\ PreGame.status # InProgress /\ StartSucceeded

\* C3: a refused updateGame to 'In Progress' (some participant not ready) broadcasts
\* nothing.
C3_RefusedStartIsSilent ==
    (StartRequested /\ ~EveryoneReady(PreGame.participants)) => emitted = <<>>

C3_Witness ==
    StartRequested /\ ~EveryoneReady(PreGame.participants) /\ Len(PreGame.participants) = 2

RECURSIVE Removed(_, _)
Removed(participants, uid) ==
    IF participants = <<>> THEN <<>>
    ELSE IF Head(participants).uid = uid THEN Removed(Tail(participants), uid)
         ELSE <<Head(participants)>> \o Removed(Tail(participants), uid)

Holds(participants, uid) == \E i \in DOMAIN participants : participants[i].uid = uid

\* C4: a toggleReady on a known session emits exactly one allPlayersReady when every
\* participant is ready after the update (a session without participants included),
\* and none when some participant is not ready after the update.
C4_ReadyNoticeOnceIffEveryoneReady ==
    (Ran("toggleReady") /\ Known) =>
        /\ CountType(emitted, "allPlayersReady") =
                (IF EveryoneReady(PostGame.participants) THEN 1 ELSE 0)
        /\ Count(emitted, [type |-> "allPlayersReady", gameId |-> lastOp.gameId]) =
                CountType(emitted, "allPlayersReady")

C4_Witness ==
    /\ Ran("toggleReady") /\ Known
    /\ Len(PreGame.participants) >= 2
    /\ ~EveryoneReady(PreGame.participants)
    /\ EveryoneReady(PostGame.participants)
    /\ CountType(emitted, "allPlayersReady") = 1

\* C5: on disconnect of a registered connection with user id u, every session holding
\* a participant with uid u loses all of them and gets exactly one playerLeft{gameId, u};
\* every other session is unchanged and gets no broadcast; the registry entry of the
\* connection is gone.
C5_DisconnectLeavesEverySession ==
    Ran("disconnect") =>
        LET u == preUsers[lastOp.conn]
        IN  /\ u # NoUser
            /\ connectedUsers[lastOp.conn] = NoUser
            /\ Len(activeGames) = Len(preGames)
            /\ \A e \in DOMAIN emitted : emitted[e].type = "playerLeft"
            /\ \A i \in DOMAIN preGames :
                 LET pre == preGames[i]
                     post == activeGames[i]
                     about == {e \in DOMAIN emitted : emitted[e].gameId = pre.id}
                 IN  IF Holds(pre.participants, u)
                     THEN /\ post = [pre EXCEPT !.participants = Removed(pre.participants, u)]
                          /\ Cardinality(about) = 1
                          /\ \A e \in about : emitted[e].playerId = u
                     ELSE /\ post = pre
                          /\ about = {}

C5_Witness ==
    /\ Ran("disconnect")
    /\ Len(preGames) = 2
    /\ \A i \in DOMAIN preGames : Holds(preGames[i].participants, preUsers[lastOp.conn])
    /\ \E i \in DOMAIN preGames : Len(activeGames[i].participants) > 0
    /\ Len(emitted) = 2

\* C6: a joinGame naming a session id that is not in the store broadcasts nothing and
\* leaves the whole store as it was.
C6_JoinUnknownIsNoOp ==
    (Ran("joinGame") /\ ~Known) => (emitted = <<>> /\ activeGames = preGames)

C6_Witness ==
    Ran("joinGame") /\ ~Known /\ Len(preGames) = 1 /\ Len(preGames[1].participants) > 0

\* C7: a joinGame on a known session appends exactly one record, with isReady false
\* whatever the caller sent and whether or not the uid is already present, keeps the
\* earlier participants in place, and broadcasts one playerJoined carrying the record.
C7_JoinAppendsNotReady ==
    (Ran("joinGame") /\ Known) =>
        LET record == [uid |-> lastOp.player.uid, isReady |-> FALSE]
        IN  /\ PostGame.participants = PreGame.participants \o <<record>>
            /\ emitted = <<[type |-> "playerJoined", gameId |-> lastOp.gameId, player |-> record]>>

C7_Witness ==
    /\ Ran("joinGame") /\ Known
    /\ lastOp.player.isReady = TRUE
    /\ Holds(PreGame.participants, lastOp.player.uid)
    /\ Len(PostGame.participants) = Len(PreGame.participants) + 1

\* C8: a leaveGame on a known session removes every participant with the given uid,
\* keeps the others with their flags and order, keeps the status, and broadcasts
\* playerLeft.
C8_LeaveRemovesAllMatches ==
    (Ran("leaveGame") /\ Known) =>
        /\ PostGame = [PreGame EXCEPT !.participants = Removed(PreGame.participants, lastOp.playerId)]
        /\ ~Holds(PostGame.participants, lastOp.playerId)
        /\ emitted = <<[type |-> "playerLeft", gameId |-> lastOp.gameId,
                        playerId |-> lastOp.playerId]>>

C8_Witness ==
    /\ Ran("leaveGame") /\ Known
    /\ Len(PreGame.participants) = 3
    /\ PreGame.participants[1].uid = lastOp.playerId
    /\ PreGame.participants[3].uid = lastOp.playerId
    /\ PostGame.participants = <<PreGame.participants[2]>>

\* C9: a toggleReady on a known session sets isReady to the given value on every
\* participant with the given uid, changes no other flag, keeps length and order, and
\* broadcasts playerReadyChanged.
C9_ToggleSetsMatchingFlags ==
    (Ran("toggleReady") /\ Known) =>
        /\ Len(PostGame.participants) = Len(PreGame.participants)
        /\ \A i \in DOMAIN PreGame.participants :
             /\ PostGame.participants[i].uid = PreGame.participants[i].uid
             /\ PostGame.participants[i].isReady =
                    (IF PreGame.participants[i].uid = lastOp.playerId
                     THEN lastOp.isReady ELSE PreGame.participants[i].isReady)
        /\ Count(emitted, [type |-> "playerReadyChanged", gameId |-> lastOp.gameId,
                           playerId |-> lastOp.playerId, isReady |-> lastOp.isReady]) = 1
        /\ CountType(emitted, "playerReadyChanged") = 1

C9_Witness ==
    /\ Ran("toggleReady") /\ Known
    /\ Len(PreGame.participants) = 3
    /\ \E i, j, k \in DOMAIN PreGame.participants :
         /\ i # j
         /\ PreGame.participants[i].uid = lastOp.playerId
         /\ PreGame.participants[j].uid = lastOp.playerId
         /\ PreGame.participants[k].uid # lastOp.playerId
         /\ PreGame.participants[i].isReady # lastOp.isReady
         /\ PostGame.participants[i].isReady = lastOp.isReady
         /\ PostGame.participants[j].isReady = lastOp.isReady

\* C10: createGame stores the payload verbatim under its id and broadcasts gameCreated;
\* a session already stored under that id is replaced whole, and every session with
\* another id is unchanged.
C10_CreateStoresVerbatim ==
    Ran("createGame") =>
        /\ Get(activeGames, lastOp.gameData.id) = lastOp.gameData
        /\ emitted = <<[type |-> "gameCreated", game |-> lastOp.gameData]>>
        /\ Keys(activeGames) = Keys(preGames) \cup {lastOp.gameData.id}
        /\ Len(activeGames) = Cardinality(Keys(activeGames))
        /\ \A g \in GameIds \ {lastOp.gameData.id} : Get(activeGames, g) = Get(preGames, g)

C10_Witness ==
    /\ Ran("createGame")
    /\ Len(preGames) = 2
    /\ Get(preGames, lastOp.gameData.id).status = InProgress
    /\ Len(Get(preGames, lastOp.gameData.id).participants) = 2
    /\ Get(activeGames, lastOp.gameData.id) = lastOp.gameData

\* The six lobby events a socket can deliver (the handshake is not one of them).
LobbyOps == {"createGame", "joinGame", "leaveGame", "toggleReady", "updateGame", "disconnect"}

\* sessions of the store found by a disconnect that held the leaving user
SessionsHolding(games, uid) == {i \in DOMAIN games : Holds(games[i].participants, uid)}

\* C11 as stated: every lobby operation (createGame, joinGame, leaveGame, toggleReady,
\* updateGame, disconnect) broadcasts zero or one event per invocation.
C11_AtMostOneBroadcast ==
    lastOp.op \in LobbyOps => Len(emitted) <= 1

\* C11 amended: createGame, joinGame, leaveGame and updateGame broadcast zero or one
\* event per invocation; toggleReady broadcasts at most two, playerReadyChanged and
\* then allPlayersReady, and none on an unknown session; disconnect broadcasts one
\* playerLeft for each session that held the leaving user.
C11_BroadcastsPerHandler ==
    /\ lastOp.op \in {"createGame", "joinGame", "leaveGame", "updateGame"} => Len(emitted) <= 1
    /\ Ran("toggleReady") =>
            /\ Len(emitted) <= 2
            /\ ~Known => emitted = <<>>
            /\ Len(emitted) >= 1 => emitted[1].type = "playerReadyChanged"
            /\ Len(emitted) = 2 => emitted[2].type = "allPlayersReady"
    /\ Ran("disconnect") =>
            /\ Len(emitted) = Cardinality(SessionsHolding(preGames, preUsers[lastOp.conn]))
            /\ \A i \in DOMAIN emitted : emitted[i].type = "playerLeft"

\* a toggleReady that broadcast twice, and a disconnect that broadcast twice
C11_Witness ==
    \/ Ran("toggleReady") /\ Len(emitted) = 2
    \/ Ran("disconnect") /\ Len(emitted) = 2

\* how many records of session gameId carry uid, and how many of them are ready
HeldCount(games, gameId, uid) ==
    IF Has(games, gameId)
    THEN LET ps == Get(games, gameId).participants
         IN  Cardinality({i \in DOMAIN ps : ps[i].uid = uid})
    ELSE 0

ReadyCount(games, gameId, uid) ==
    IF Has(games, gameId)
    THEN LET ps == Get(games, gameId).participants
         IN  Cardinality({i \in DOMAIN ps : ps[i].uid = uid /\ ps[i].isReady = TRUE})
    ELSE 0

Joined(gameId, uid) ==
    Ran("joinGame") /\ lastOp.gameId = gameId /\ lastOp.player.uid = uid

Left(gameId, uid) ==
    Ran("leaveGame") /\ lastOp.gameId = gameId /\ lastOp.playerId = uid

SetReady(gameId, uid) ==
    Ran("toggleReady") /\ lastOp.gameId = gameId /\ lastOp.playerId = uid /\ lastOp.isReady = TRUE

Created(gameId) == Ran("createGame") /\ lastOp.gameData.id = gameId

\* C12 as stated: a session gains a record of a user id only by a joinGame of that id
\* and holds none after that id's leaveGame, so its participants are ids that joined
\* and have not since left; a session gains a ready record of a user id only by a
\* toggleReady(isReady=true) for that id, so a record is ready only if that toggle
\* was issued after the record was joined.
C12_OnlyJoinedOnlyToggledReady ==
    \A gameId \in GameIds, uid \in Uids :
        /\ HeldCount(activeGames, gameId, uid) > HeldCount(preGames, gameId, uid)
                => Joined(gameId, uid)
        /\ Left(gameId, uid) => HeldCount(activeGames, gameId, uid) = 0
        /\ ReadyCount(activeGames, gameId, uid) > ReadyCount(preGames, gameId, uid)
                => SetReady(gameId, uid)

\* C12 amended: apart from the records a createGame payload brings with it, a session
\* gains a record of a user id only by a joinGame of that id, the record joined is not
\* ready, a leaveGame of an id leaves no record of it, and a session gains a ready
\* record of a user id only by a toggleReady(isReady=true) for that id.
C12_OnlyCreatedJoinedToggled ==
    \A gameId \in GameIds, uid \in Uids :
        /\ ~(Joined(gameId, uid) \/ Created(gameId))
                => HeldCount(activeGames, gameId, uid) <= HeldCount(preGames, gameId, uid)
        /\ Joined(gameId, uid)
                => ReadyCount(activeGames, gameId, uid) = ReadyCount(preGames, gameId, uid)
        /\ Left(gameId, uid) => HeldCount(activeGames, gameId, uid) = 0
        /\ ~(SetReady(gameId, uid) \/ Created(gameId))
                => ReadyCount(activeGames, gameId, uid) <= ReadyCount(preGames, gameId, uid)

\* a toggleReady(true) that made one user's joined record ready while the record of
\* another user in the same session stayed not ready
C12_Witness ==
    /\ Ran("toggleReady") /\ Known /\ lastOp.isReady = TRUE
    /\ ReadyCount(activeGames, lastOp.gameId, lastOp.playerId)
            > ReadyCount(preGames, lastOp.gameId, lastOp.playerId)
    /\ \E u \in Uids \ {lastOp.playerId} :
            /\ HeldCount(activeGames, lastOp.gameId, u) > 0
            /\ ReadyCount(activeGames, lastOp.gameId, u) = 0

Rejected == Ran("connection") /\ lastOp.uid = NoUser

\* C14: a connection whose handshake carries no user id is terminated and never enters
\* the registry, the handshake changes neither the session store nor the registry and
\* broadcasts nothing, and a lobby event (createGame, joinGame, leaveGame, toggleReady,
\* updateGame, disconnect) is handled only on a socket that is in the registry, so none
\* arriving on the rejected connection changes the store or causes a broadcast.
C14_NoUserIdIsRejected ==
    /\ Ran("connection") => (lastOp.disconnected <=> lastOp.uid = NoUser)
    /\ Rejected =>
            /\ ~Registered(lastOp.conn)
            /\ connectedUsers = preUsers
            /\ activeGames = preGames
            /\ emitted = <<>>
    /\ \A c \in Conns : Registered(c) => connectedUsers[c] \in Uids
    /\ lastOp.op \in LobbyOps => \E c \in Conns : preUsers[c] \in Uids
    /\ Ran("disconnect") => preUsers[lastOp.conn] \in Uids

\* a handshake without user id rejected while the store holds a session with players
C14_Witness ==
    /\ Rejected
    /\ lastOp.disconnected
    /\ \E i \in DOMAIN activeGames : activeGames[i].participants # <<>>

\* the records of session gameId that socket c added
AddedBy(c, gameId) == {i \in DOMAIN addedBy[gameId] : addedBy[gameId][i] = c}

\* C13 as stated: after a connection's disconnect no participant record it added by a
\* joinGame remains in any session, whatever uid the record carries.
C13_DisconnectRemovesWhatItAdded ==
    Ran("disconnect") => \A gameId \in GameIds : AddedBy(lastOp.conn, gameId) = {}

\* C13 amended: a disconnect removes from every session exactly the records whose uid
\* is the user id the connection registered with, whoever added them; of the records
\* the connection added itself, those carrying another uid remain.
C13_DisconnectRemovesByUid ==
    Ran("disconnect") =>
        /\ Len(activeGames) = Len(preGames)
        /\ \A i \in DOMAIN preGames :
              /\ activeGames[i].participants
                    = Removed(preGames[i].participants, preUsers[lastOp.conn])
              /\ Len(addedBy[activeGames[i].id]) = Len(activeGames[i].participants)
              /\ \A k \in AddedBy(lastOp.conn, activeGames[i].id) :
                    activeGames[i].participants[k].uid # preUsers[lastOp.conn]

\* a disconnect that removed a record and left behind a record the connection added
C13_Witness ==
    /\ Ran("disconnect")
    /\ emitted # <<>>
    /\ \E gameId \in GameIds : AddedBy(lastOp.conn, gameId) # {}

\* C15: the registry holds an entry for a connection only while the connection is
\* connected, in the lobby server and in the chat server alike; once a connection has
\* disconnected its entry is gone, whenever the disconnect falls relative to the chat
\* server's fetch of the chat history.
C15_EntryOnlyWhileConnected ==
    /\ \A c \in ChatConns : chatUsers[c] # NoUser => chatSockets[c].connected
    /\ Ran("disconnect") => ~Registered(lastOp.conn)

\* the process has a step left: a call that is pending when it has none stays pending
StillRunning == ENABLED QueryNext

Settlements(call) == {i \in DOMAIN call.did : call.did[i] \in {"resolve", "reject"}}

Closings(call) == {i \in DOMAIN call.did : call.did[i] = "close"}

\* C17: on every exit path of queryGameServer the socket is closed before the promise
\* is resolved or rejected, and no call that has completed has its socket open.
C17_ClosedBeforeResult ==
    \A q \in Queries :
        Started(q) =>
            /\ \A i \in Settlements(calls[q]) : \E j \in Closings(calls[q]) : j < i
            /\ Settled(q) => calls[q].client = "closed"
            /\ Settled(q) => Settlements(calls[q]) # {}

\* one call ended by a response and one by its timer, both with the socket closed
C17_Witness ==
    /\ \E q \in Queries : Settled(q) /\ calls[q].promise = "resolved"
    /\ \E q \in Queries : Settled(q) /\ calls[q].result = Failure("Timeout")

Outcome(call) ==
    IF call.promise = "resolved" THEN "success"
    ELSE IF call.result = Failure("Timeout") THEN "timeout"
    ELSE "transport error"

\* C16: every queryGameServer call completes with exactly one outcome out of success,
\* timeout and transport error: a call without outcome is never left without a
\* callback to come, the first callback to fire decides, and no later datagram, error
\* or timer expiry settles the call again.
C16_ExactlyOneOutcome ==
    \A q \in Queries :
        /\ Pending(q) => StillRunning
        /\ Settled(q) =>
              /\ Cardinality(Settlements(calls[q])) = 1
              /\ Outcome(calls[q]) = "success" => calls[q].received \in Responses
              /\ Outcome(calls[q]) = "timeout" => calls[q].timer = "fired"

\* C18: a call whose target never responds and whose transport reports no error fails
\* with Timeout: it is never left pending with no callback to come, it is not
\* rejected before 3000 ms have passed, and its socket is closed when it is.
C18_SilentTargetTimesOut ==
    \A q \in Queries :
        (Started(q) /\ calls[q].target = "silent") =>
            /\ Pending(q) => StillRunning
            /\ Settled(q) =>
                  /\ calls[q].result = Failure("Timeout")
                  /\ calls[q].elapsed >= TimeoutMs
                  /\ calls[q].client = "closed"

ResolvedWith(q, response) ==
    Started(q) /\ calls[q].promise = "resolved" /\ calls[q].received = response

\* the result the specification's test expects for the captured response
Expected ==
    [status |-> "online", players |-> 1, maxPlayers |-> Number(16), map |-> "dm1", gametype |-> "0"]

\* C19: a call answered with the captured response (header line, variables line with
\* sv_maxclients 16, mapname dm1, g_gametype 0, lines player1 and player2, trailing
\* newline) resolves with exactly status online, players 1, maxPlayers 16, map dm1,
\* gametype 0.
C19_CapturedResponseParsed ==
    \A q \in Queries : ResolvedWith(q, Captured) => calls[q].result = Expected

\* the token that follows the key's token in the response
ValueOf(response, key) ==
    LET i == CHOOSE k \in DOMAIN response : response[k] = key
    IN  IF i + 2 <= Len(response) THEN response[i + 2] ELSE Undefined

Present(response, key) == \E k \in DOMAIN response : response[k] = key

\* C20: in a successful query maxPlayers, map and gametype each take the value of
\* their key (sv_maxclients, mapname, g_gametype) when the key is present in the
\* response and their default (32, unknown, unknown) when it is not.
C20_KeysOrDefaults ==
    \A q \in Queries :
        (Started(q) /\ calls[q].promise = "resolved") =>
            LET response == calls[q].received
                status == calls[q].result
            IN  /\ status.maxPlayers =
                      IF Present(response, "sv_maxclients")
                      THEN ParseInt(ValueOf(response, "sv_maxclients"))
                      ELSE Number(DefaultMaxPlayers)
                /\ status.map =
                      IF Present(response, "mapname")
                      THEN ValueOf(response, "mapname")
                      ELSE "unknown"
                /\ status.gametype =
                      IF Present(response, "g_gametype")
                      THEN ValueOf(response, "g_gametype")
                      ELSE "unknown"

\* C21: no error is fatal to the process: whatever the order of a query's message,
\* error and timer callbacks, every exception raised in a callback is absorbed and the
\* process never reaches a crashed state.
C21_NeverCrashes == ~crashed

Requested(q) == requests[q] # NoRequest

\* C22: when queryGameServer fails, by timeout or transport error, the endpoint answers
\* with status offline, players 0, maxPlayers 32 and the failure's text in the error
\* field; it answers with the parsed result when, and only when, the query succeeded.
C22_FailureAnsweredOffline ==
    \A q \in Queries :
        (Requested(q) /\ Started(q)) =>
            /\ calls[q].promise = "rejected" =>
                  /\ requests[q].reply.code = 500
                  /\ requests[q].reply.body =
                        [status |-> "offline", players |-> 0, maxPlayers |-> Number(32),
                         error |-> calls[q].result.error]
                  /\ calls[q].result.error \in {"Timeout", "IOError"}
            /\ calls[q].promise = "resolved" => requests[q].reply = [code |-> 200, body |-> calls[q].result]
            /\ calls[q].promise = "pending" => requests[q].reply = Waiting

\* one request answered after a timeout and one after a transport error
C22_Witness ==
    /\ \E q \in Queries : Requested(q) /\ requests[q].reply = Offline("Timeout")
    /\ \E q \in Queries : Requested(q) /\ requests[q].reply = Offline("IOError")

\* the port texts that are decimal numbers from 1 to 65535
PortsInRange == {"27960", "65535"}

\* C23: queryGameServer is invoked only with a port from 1 to 65535; a request whose
\* port is not a number, is zero, negative or above 65535 is answered with status
\* error and 'Invalid port number', and no socket is opened for it.
C23_OnlyValidPortsQueried ==
    \A q \in Queries :
        Requested(q) =>
            /\ Started(q) => ValidPort(requests[q].passed)
            /\ requests[q].port \notin PortsInRange =>
                  /\ requests[q].reply = BadPort
                  /\ ~Started(q)

\* C25: leaveGame, toggleReady and updateGame naming a game id that is not in the store
\* are no-ops: the store is left as it was, nothing is broadcast, and the session is
\* not created.
C25_UnknownSessionIsNoOp ==
    ((Ran("leaveGame") \/ Ran("toggleReady") \/ Ran("updateGame")) /\ ~Known) =>
        /\ activeGames = preGames
        /\ emitted = <<>>
        /\ ~Has(activeGames, lastOp.gameId)

\* an updateGame for an id that is not in a store holding another session
C25_Witness ==
    /\ Ran("updateGame") /\ ~Known
    /\ lastOp.status = InProgress
    /\ preGames # <<>>

\* C26: an updateGame with a status other than 'In Progress' on a known session sets
\* the session's status to it whatever the readiness of the participants, leaves the
\* participants as they were, and emits exactly one gameUpdated carrying the session
\* as it is after the change.
C26_OtherStatusAlwaysSet ==
    (Ran("updateGame") /\ Known /\ lastOp.status # InProgress) =>
        /\ PostGame.status = lastOp.status
        /\ PostGame.participants = PreGame.participants
        /\ PostGame.id = PreGame.id
        /\ emitted = <<[type |-> "gameUpdated", game |-> PostGame]>>

\* a session in progress with a participant who is not ready is opened again
C26_Witness ==
    /\ Ran("updateGame") /\ Known /\ lastOp.status # InProgress
    /\ PreGame.status = InProgress
    /\ PreGame.participants # <<>>
    /\ ~EveryoneReady(PreGame.participants)

\* C27: joinGame, leaveGame, toggleReady (one that emits allPlayersReady included) and
\* disconnect leave the status of every session as it was; only updateGame and a
\* createGame that overwrites the id change the status of a session.
C27_StatusChangedOnlyByUpdate ==
    (Ran("joinGame") \/ Ran("leaveGame") \/ Ran("toggleReady") \/ Ran("disconnect")) =>
        /\ Keys(activeGames) = Keys(preGames)
        /\ \A gameId \in Keys(preGames) :
                Get(activeGames, gameId).status = Get(preGames, gameId).status

\* the last toggleReady of an open session, announced with allPlayersReady
C27_Witness ==
    /\ Ran("toggleReady") /\ Known
    /\ CountType(emitted, "allPlayersReady") = 1
    /\ PreGame.participants # <<>>
    /\ PostGame.status = "Open"

\* C30: a game id that is in the store stays in it: no event removes a session, the
\* one that takes the last participant out included, so the ids of the store after an
\* event contain the ids before it, in the same order.
C30_SessionsNeverRemoved ==
    /\ Len(preGames) <= Len(activeGames)
    /\ \A i \in DOMAIN preGames : activeGames[i].id = preGames[i].id

\* the only participant of a session leaves and the session stays, empty
C30_Witness ==
    /\ Ran("leaveGame") /\ Known
    /\ PreGame.participants # <<>>
    /\ PostGame.participants = <<>>
    /\ Has(activeGames, lastOp.gameId)

\* the log ends with the broadcasts of the event handled last, in the order of its calls
LogEndsWith(events) ==
    /\ Len(events) <= Len(broadcastLog)
    /\ SubSeq(broadcastLog, Len(broadcastLog) - Len(events) + 1, Len(broadcastLog)) = events

\* C24: broadcasts reach the fanout in the order they were issued: the log grows by
\* the broadcasts of each handled event, in the order events are processed, and the
\* allPlayersReady of a toggleReady comes directly after the playerReadyChanged of the
\* same toggleReady, with no broadcast of another event between them.
C24_BroadcastsInIssueOrder ==
    /\ LogEndsWith(emitted)
    /\ (Ran("toggleReady") /\ Known) => emitted[1].type = "playerReadyChanged"
    /\ \A i \in DOMAIN broadcastLog :
            broadcastLog[i].type = "allPlayersReady" =>
                /\ i > 1
                /\ broadcastLog[i - 1].type = "playerReadyChanged"
                /\ broadcastLog[i - 1].gameId = broadcastLog[i].gameId

\* a toggleReady that issues both events, after another event's broadcast
C24_Witness ==
    /\ Ran("toggleReady") /\ Known
    /\ Len(emitted) = 2
    /\ Len(broadcastLog) >= 3
    /\ broadcastLog[Len(broadcastLog)].type = "allPlayersReady"

\* the session an event leaves when it is handled on its own, from start to end
SessionAfter(game, op) ==
    CASE op.op = "joinGame" ->
            [game EXCEPT !.participants = Append(@, [op.player EXCEPT !.isReady = FALSE])]
      [] op.op = "leaveGame" ->
            [game EXCEPT !.participants = SelectSeq(@, LAMBDA p : p.uid # op.playerId)]
      [] op.op = "toggleReady" ->
            [game EXCEPT !.participants =
                [i \in DOMAIN @ |-> IF @[i].uid = op.playerId
                                    THEN [@[i] EXCEPT !.isReady = op.isReady] ELSE @[i]]]
      [] op.op = "updateGame" -> [game EXCEPT !.status = op.status]

\* the store an event leaves when it is handled on its own on the store games
StoreAfter(games, users, op) ==
    CASE op.op = "createGame" ->
            IF Has(games, op.gameData.id)
            THEN [i \in DOMAIN games |-> IF games[i].id = op.gameData.id THEN op.gameData ELSE games[i]]
            ELSE Append(games, op.gameData)
      [] op.op \in {"joinGame", "leaveGame", "toggleReady", "updateGame"} ->
            [i \in DOMAIN games |->
                IF games[i].id = op.gameId THEN SessionAfter(games[i], op) ELSE games[i]]
      [] op.op = "disconnect" ->
            [i \in DOMAIN games |->
                [games[i] EXCEPT !.participants = SelectSeq(@, LAMBDA p : p.uid # users[op.conn])]]
      [] OTHER -> games

OwnOutcomes(call) ==
    CASE call.target = "answering" -> {ParseStatus(call.received), Failure("Timeout")}
      [] call.target = "failing" -> {Failure("IOError"), Failure("Timeout")}
      [] call.target = "silent" -> {Failure("Timeout")}

\* C28: a status query leaves the session store, the registry and the broadcast log
\* alone, and concurrent queries do not interfere: a call's outcome is decided by its
\* own socket and its own timer, so a pending call whose timer is still to fire gets
\* that timer's callback whatever the other calls do, and a settled call holds a
\* result its own target and timer account for.
C28_QueriesDoNotInterfere ==
    /\ activeGames = <<>>
    /\ broadcastLog = <<>>
    /\ \A c \in Conns : ~Registered(c)
    /\ \A q \in Queries :
            /\ Settled(q) => calls[q].result \in OwnOutcomes(calls[q])
            /\ (Pending(q) /\ calls[q].timer = "armed") => ~crashed

\* every client.close() of a call, the one that throws on a closed socket included
CloseCalls(call) == {i \in DOMAIN call.did : call.did[i] \in {"close", "close throws"}}

\* C31: within one queryGameServer call close is invoked at most once on the socket:
\* once the message handler or the error handler has closed it, the timer does not
\* close it again, and no callback calls close on a socket that is already closed.
C31_ClosedAtMostOnce ==
    \A q \in Queries :
        Started(q) =>
            /\ Cardinality(CloseCalls(calls[q])) <= 1
            /\ \A i \in DOMAIN calls[q].did : calls[q].did[i] # "close throws"

\* C32: joinGame and toggleReady do not look at the status of the session: on a
\* session in progress a joinGame appends the player with isReady false, and a
\* toggleReady with isReady false clears the flag of every record of that user, the
\* status staying 'In Progress' in both cases.
C32_NotGatedOnStatus ==
    /\ (Ran("joinGame") /\ Known /\ PreGame.status = InProgress) =>
            /\ PostGame.status = InProgress
            /\ Len(PostGame.participants) = Len(PreGame.participants) + 1
            /\ PostGame.participants[Len(PostGame.participants)].uid = lastOp.player.uid
            /\ ~PostGame.participants[Len(PostGame.participants)].isReady
            /\ CountType(emitted, "playerJoined") = 1
    /\ (Ran("toggleReady") /\ Known /\ PreGame.status = InProgress /\ ~lastOp.isReady) =>
            /\ PostGame.status = InProgress
            /\ Len(PostGame.participants) = Len(PreGame.participants)
            /\ \A i \in DOMAIN PostGame.participants :
                    PostGame.participants[i].uid = lastOp.playerId =>
                        ~PostGame.participants[i].isReady
            /\ CountType(emitted, "playerReadyChanged") = 1

\* a game started with everyone ready takes a new participant, who is not ready
C32_Witness ==
    /\ Ran("joinGame") /\ Known
    /\ PreGame.status = InProgress
    /\ PreGame.participants # <<>>
    /\ EveryoneReady(PreGame.participants)
    /\ PostGame.status = InProgress
    /\ ~EveryoneReady(PostGame.participants)

\* how many records of user uid session gameId of the store games holds
Records(games, gameId, uid) ==
    IF Has(games, gameId)
    THEN Cardinality({i \in DOMAIN Get(games, gameId).participants :
                            Get(games, gameId).participants[i].uid = uid})
    ELSE 0

\* C33: the cleanup of a disconnect is keyed by user id, not by connection: the
\* records of a user leave a session only by a leaveGame naming that user, by the
\* disconnect of a socket registered with that user id, or by a createGame that
\* overwrites the session; and such a disconnect takes the user out of every session
\* even while another socket registered with the same user id stays connected.
C33_CleanupKeyedByUid ==
    /\ \A gameId \in GameIds, uid \in Uids :
            Records(activeGames, gameId, uid) < Records(preGames, gameId, uid) =>
                \/ Ran("leaveGame") /\ lastOp.gameId = gameId /\ lastOp.playerId = uid
                \/ Ran("disconnect") /\ preUsers[lastOp.conn] = uid
                \/ Ran("createGame") /\ lastOp.gameData.id = gameId
    /\ Ran("disconnect") =>
            \A gameId \in GameIds :
                /\ Records(activeGames, gameId, preUsers[lastOp.conn]) = 0
                /\ \A uid \in Uids \ {preUsers[lastOp.conn]} :
                        Records(activeGames, gameId, uid) = Records(preGames, gameId, uid)

\* one of two sockets registered with the same user id disconnects, and the user is
\* taken out of a session while the other socket stays connected
C33_Witness ==
    /\ Ran("disconnect")
    /\ \E d \in Sockets : d # lastOp.conn /\ connectedUsers[d] = preUsers[lastOp.conn]
    /\ \E gameId \in GameIds :
            /\ Records(preGames, gameId, preUsers[lastOp.conn]) > 0
            /\ Records(activeGames, gameId, preUsers[lastOp.conn]) = 0

\* C34: a toggleReady naming a user who is not a participant of a known session
\* leaves the session as it was and still broadcasts playerReadyChanged with the
\* values sent, followed by allPlayersReady exactly when every participant the
\* session has is ready (a session without participants included), whatever the
\* isReady sent.
C34_NonParticipantStillAnnounced ==
    (Ran("toggleReady") /\ Known /\ ~Holds(PreGame.participants, lastOp.playerId)) =>
        /\ activeGames = preGames
        /\ emitted =
             <<[type |-> "playerReadyChanged", gameId |-> lastOp.gameId,
                playerId |-> lastOp.playerId, isReady |-> lastOp.isReady]>>
             \o (IF EveryoneReady(PreGame.participants)
                 THEN <<[type |-> "allPlayersReady", gameId |-> lastOp.gameId]>>
                 ELSE <<>>)

\* a user outside the session reports not ready, and the session, whose participants
\* are all ready, is announced ready
C34_Witness ==
    /\ Ran("toggleReady") /\ Known
    /\ ~Holds(PreGame.participants, lastOp.playerId)
    /\ ~lastOp.isReady
    /\ PreGame.participants # <<>>
    /\ CountType(emitted, "allPlayersReady") = 1

====
